---- MODULE Spec2Model ----
(***************************************************************************)
(* Model of the judging engine of src/judge.py: execute_code and           *)
(* execute_code_sync.  One behaviour is one call of one of the two         *)
(* functions: the test-case text is decoded, the per-test loop runs one    *)
(* sandbox (docker run) per test case and classifies what it did, and the  *)
(* verdict is built and returned.  What a sandbox does (fails to start,    *)
(* times out, exits with some code, stdout and stderr) is the input of     *)
(* each loop iteration.                                                    *)
(***************************************************************************)
EXTENDS Integers, Sequences, FiniteSets, TLC

VARIABLES fn, test_cases_json, timeout, pc, test_cases, idx, results,
          passed_count, total_count, verdict, raised, runs, appended

vars == <<fn, test_cases_json, timeout, pc, test_cases, idx, results,
          passed_count, total_count, verdict, raised, runs, appended>>

(* ------------------------------ bounds -------------------------------- *)

\* Longest test suite (and longest top-level JSON object or string) tried.
MaxLen == 3

(* ------------------------- program constants -------------------------- *)

\* execute_code(code, test_cases_json, timeout: int = 10)
DefaultTimeout == 10

\* execute_code_sync: subprocess.run(..., timeout=10)
SyncTimeout == 10

\* The timeouts a caller of execute_code passes: the default and another.
Timeouts == {1, DefaultTimeout}

(* --------------------------- test-case text --------------------------- *)

\* What one element of the decoded value is: a JSON object (a dict, which
\* has .get) or anything else (a number, a string, a list, null: no .get).
\* Iterating a dict yields its keys and iterating a str its characters,
\* which are strings: never dicts.
ElemKinds == {"dict", "other"}

SeqsUpTo(S, n) == UNION {[1..k -> S] : k \in 0..n}

\* The test-case text, by the JSON it holds: not JSON at all ("garbage"), an
\* array of elements, an object with some keys, a string of some characters,
\* or a number / null / boolean.
Texts ==
    {[form |-> "garbage", items |-> <<>>]}
    \cup {[form |-> "array", items |-> s] : s \in SeqsUpTo(ElemKinds, MaxLen)}
    \cup {[form |-> f, items |-> s] : f \in {"object", "string"},
                                      s \in SeqsUpTo({"other"}, MaxLen)}
    \cup {[form |-> f, items |-> <<>>] : f \in {"number", "null", "boolean"}}

\* json.loads(test_cases_json): raises json.JSONDecodeError on text that is
\* not JSON, and otherwise returns the decoded value, whatever its type.
JsonLoads(text) ==
    IF text.form = "garbage"
    THEN [exc |-> "JSONDecodeError", type |-> "", items |-> <<>>]
    ELSE [exc |-> "none",
          type |-> CASE text.form = "array" -> "list"
                     [] text.form = "object" -> "dict"
                     [] text.form = "string" -> "str"
                     [] text.form = "number" -> "int"
                     [] text.form = "null" -> "NoneType"
                     [] text.form = "boolean" -> "bool",
          items |-> text.items]

\* len(x) and enumerate(x) are defined for list, dict and str only;
\* len of an int, a bool or None raises TypeError.
HasLen(value) == value.type \in {"list", "dict", "str"}

NoValue == [exc |-> "none", type |-> "", items |-> <<>>]

(* ------------------------------ verdicts ------------------------------ *)

NoVerdict == [status |-> "none"]

\* The verdict of a text that does not decode (judge.py 18-23, 124-129): it
\* has no "test_results" key.
ErrorVerdict ==
    [status |-> "error", message |-> "Invalid test cases JSON format",
     passed |-> 0, total |-> 0]

Init ==
    /\ fn \in {"execute_code", "execute_code_sync"}
    /\ test_cases_json \in Texts
    /\ timeout \in (IF fn = "execute_code" THEN Timeouts ELSE {SyncTimeout})
    /\ pc = "parse"
    /\ test_cases = NoValue
    /\ idx = 0
    /\ results = <<>>
    /\ passed_count = 0
    /\ total_count = 0
    /\ verdict = NoVerdict
    /\ raised = "none"
    /\ runs = <<>>
    /\ appended = <<>>

\* json.loads raises JSONDecodeError: the error verdict is returned.
ParseFails ==
    /\ pc = "parse"
    /\ JsonLoads(test_cases_json).exc = "JSONDecodeError"
    /\ verdict' = ErrorVerdict
    /\ pc' = "done"
    /\ UNCHANGED <<fn, test_cases_json, timeout, test_cases, idx, results,
                   passed_count, total_count, raised, runs, appended>>

\* json.loads returns a value that has a length: the loop is entered with
\* total_count = len(test_cases).
ParseOk ==
    /\ pc = "parse"
    /\ JsonLoads(test_cases_json).exc = "none"
    /\ HasLen(JsonLoads(test_cases_json))
    /\ test_cases' = JsonLoads(test_cases_json)
    /\ total_count' = Len(JsonLoads(test_cases_json).items)
    /\ results' = <<>>
    /\ passed_count' = 0
    /\ idx' = 0
    /\ pc' = "loop"
    /\ UNCHANGED <<fn, test_cases_json, timeout, verdict, raised, runs, appended>>

\* json.loads returns a number, a boolean or null: len(test_cases) raises
\* TypeError outside every try block, and the call ends with the exception.
LenRaises ==
    /\ pc = "parse"
    /\ JsonLoads(test_cases_json).exc = "none"
    /\ ~HasLen(JsonLoads(test_cases_json))
    /\ test_cases' = JsonLoads(test_cases_json)
    /\ raised' = "TypeError"
    /\ pc' = "raised"
    /\ UNCHANGED <<fn, test_cases_json, timeout, idx, results, passed_count,
                   total_count, verdict, runs, appended>>

(* ------------------------- sandbox outcomes --------------------------- *)

\* What a sandbox wrote to stdout, after strip(): nothing, text that is not
\* JSON, JSON that is not an object, or one JSON object (a result record)
\* with its "status" and "test_case".
NoStdout == [form |-> "empty", status |-> "", test_case |-> 0]

Record(status, i) == [form |-> "record", status |-> status, test_case |-> i]

\* The records the harness script prints for test case i (judge.py 50-55,
\* 153-158): passed, failed or error, tagged with i.
HarnessRecords(i) == {Record(s, i) : s \in {"passed", "failed", "error"}}

\* The submitted code runs before the harness and can print a record of its
\* own and exit 0 (sys.exit(0)) before the harness prints: any status and
\* any test_case can arrive.
ForeignRecords(i) == {Record("passed", i + 1), Record("bogus", i)}

Stdouts(i) ==
    {NoStdout,
     [form |-> "garbage", status |-> "", test_case |-> 0],
     [form |-> "nondict", status |-> "", test_case |-> 0]}
    \cup HarnessRecords(i) \cup ForeignRecords(i)

\* No subprocess.run was reached in the iteration.
NotStarted == [kind |-> "notstarted", rc |-> 0, stdout |-> NoStdout, stderr |-> ""]

\* subprocess.run raised before any sandbox ran (docker missing: OSError).
StartFailure == [kind |-> "startfail", rc |-> 0, stdout |-> NoStdout, stderr |-> ""]

\* subprocess.run raised subprocess.TimeoutExpired.
TimedOut == [kind |-> "timeout", rc |-> 0, stdout |-> NoStdout, stderr |-> ""]

\* subprocess.run returned: exit code, stdout and stderr of the sandbox.
Exits(i) ==
    {[kind |-> "exit", rc |-> 0, stdout |-> s, stderr |-> ""] : s \in Stdouts(i)}
    \cup {[kind |-> "exit", rc |-> 1, stdout |-> s, stderr |-> e] :
             s \in {NoStdout, Record("passed", i)}, e \in {"", "Traceback"}}

\* The ways submitted code fails inside the sandbox of one test case.
CodeFailures == {"definition", "no_solution", "call"}

\* What the sandbox of test case i does when the submitted code fails
\* (judge.py 32-56, 138-159).  {code} is pasted at the top level of the
\* script, outside its try: an exception raised there ends the interpreter
\* with exit code 1, the traceback on stderr and nothing on stdout.  A
\* missing solution (NameError) and an exception of the call are raised
\* inside the script's try, which prints the "error" record and exits 0.
FailureOutcome(failure, i) ==
    IF failure = "definition"
    THEN [kind |-> "exit", rc |-> 1, stdout |-> NoStdout, stderr |-> "Traceback"]
    ELSE [kind |-> "exit", rc |-> 0, stdout |-> Record("error", i), stderr |-> ""]

(* --------------------------- loop iteration --------------------------- *)

\* An entry of results.  Keys that an entry does not have are "".
Entry(status, i, error, message) ==
    [status |-> status, test_case |-> i, error |-> error, message |-> message]

NoEntry == Entry("none", -1, "", "")

\* What the try body of one iteration did: the exception it raised (or
\* "none"), the entry it appended (or NoEntry) and what it added to
\* passed_count.
Did(exc, entry, inc) == [exc |-> exc, entry |-> entry, inc |-> inc]

\* str(e) of the exceptions the try body raises.
StrOf(exc) ==
    CASE exc = "AttributeError" -> "object has no attribute 'get'"
      [] exc = "OSError" -> "No such file or directory: 'docker'"
      [] exc = "JSONDecodeError" -> "Expecting value"
      [] exc = "TimeoutExpired" -> "Command timed out"

\* Increment with a slip: the record is counted where its status is tested
\* and again where it is appended.
IncrementTwice(test_result) == IF test_result.status = "passed" THEN 2 ELSE 0

\* if test_result.get("status") == "passed": passed_count += 1
Increment(test_result) == IF test_result.status = "passed" THEN 1 ELSE 0

\* The returncode == 0 branch (judge.py 76-82, 176-182): empty stdout appends
\* nothing; json.loads raises on text that is not JSON; .get raises on JSON
\* that is not an object; a record is counted and appended as it is.
ClassifyStdout(out) ==
    CASE out.stdout.form = "empty" -> Did("none", NoEntry, 0)
      [] out.stdout.form = "garbage" -> Did("JSONDecodeError", NoEntry, 0)
      [] out.stdout.form = "nondict" -> Did("AttributeError", NoEntry, 0)
      [] out.stdout.form = "record" ->
            Did("none",
                Entry(out.stdout.status, out.stdout.test_case,
                      IF out.stdout.status = "error" THEN "exception message" ELSE "",
                      ""),
                Increment(out.stdout))

\* What reaches the except clauses from the statements before the
\* returncode test: test_case.get on an element that is no dict, and the
\* exceptions of subprocess.run.
RaisedBeforeExit(elem, out) ==
    CASE elem # "dict" -> "AttributeError"
      [] out.kind = "startfail" -> "OSError"
      [] out.kind = "timeout" -> "TimeoutExpired"
      [] OTHER -> "none"

\* result.stderr or "Execution failed"
StderrOr(out) == IF out.stderr # "" THEN out.stderr ELSE "Execution failed"

\* f"Timeout exceeded ({timeout}s)"
TimeoutText(n) == "Timeout exceeded (" \o ToString(n) \o "s)"

\* The try body of execute_code (judge.py 30-90).
ExecuteCodeTry(elem, i, out) ==
    IF RaisedBeforeExit(elem, out) # "none"
    THEN Did(RaisedBeforeExit(elem, out), NoEntry, 0)
    ELSE IF out.rc = 0
         THEN ClassifyStdout(out)
         ELSE Did("none", Entry("error", i, StderrOr(out), ""), 0)

\* One iteration of execute_code with its except clauses (judge.py 29-103):
\* TimeoutExpired appends the timeout error, any other Exception appends an
\* error carrying str(e).
ExecuteCodeIteration(elem, i, out, n) ==
    LET d == ExecuteCodeTry(elem, i, out) IN
    CASE d.exc = "none" -> d
      [] d.exc = "TimeoutExpired" ->
            Did("none", Entry("error", i, TimeoutText(n), ""), 0)
      [] OTHER -> Did("none", Entry("error", i, StrOf(d.exc), ""), 0)

\* The try body of execute_code_sync (judge.py 136-182): the returncode test
\* has no else branch.
ExecuteCodeSyncTry(elem, i, out) ==
    IF RaisedBeforeExit(elem, out) # "none"
    THEN Did(RaisedBeforeExit(elem, out), NoEntry, 0)
    ELSE IF out.rc = 0
         THEN ClassifyStdout(out)
         ELSE Did("none", NoEntry, 0)

\* One iteration of execute_code_sync with its except clause (judge.py
\* 135-192): every Exception, TimeoutExpired included, appends the warning.
ExecuteCodeSyncIteration(elem, i, out) ==
    LET d == ExecuteCodeSyncTry(elem, i, out) IN
    IF d.exc = "none"
    THEN d
    ELSE Did("none",
             Entry("warning", i, "", "Docker not available, using local execution"),
             0)

Iteration(f, elem, i, out, n) ==
    IF f = "execute_code"
    THEN ExecuteCodeIteration(elem, i, out, n)
    ELSE ExecuteCodeSyncIteration(elem, i, out)

\* The loop body on element idx with sandbox outcome out; runs and appended
\* keep, per iteration, what the sandbox did and what the iteration appended.
Iterate(out) ==
    LET d == Iteration(fn, test_cases.items[idx + 1], idx, out, timeout) IN
    /\ results' = IF d.entry = NoEntry THEN results ELSE Append(results, d.entry)
    /\ passed_count' = passed_count + d.inc
    /\ idx' = idx + 1
    /\ runs' = Append(runs, out)
    /\ appended' = Append(appended, d.entry)
    /\ UNCHANGED <<fn, test_cases_json, timeout, pc, test_cases, total_count,
                   verdict, raised>>

InLoop == pc = "loop" /\ idx < Len(test_cases.items)

\* The element is no dict: test_case.get raises while the script is built,
\* before subprocess.run.
TestCaseNotObject ==
    /\ InLoop
    /\ test_cases.items[idx + 1] # "dict"
    /\ Iterate(NotStarted)

SandboxStartFails ==
    /\ InLoop
    /\ test_cases.items[idx + 1] = "dict"
    /\ Iterate(StartFailure)

SandboxTimesOut ==
    /\ InLoop
    /\ test_cases.items[idx + 1] = "dict"
    /\ Iterate(TimedOut)

SandboxExits ==
    /\ InLoop
    /\ test_cases.items[idx + 1] = "dict"
    /\ \E out \in Exits(idx) : Iterate(out)

(* ------------------------------- return ------------------------------- *)

\* execute_code: "passed" if passed_count == total_count else "failed"
ExecuteCodeStatus(p, t) == IF p = t THEN "passed" ELSE "failed"

\* execute_code_sync:
\* "passed" if passed_count == total_count and total_count > 0 else "warning"
ExecuteCodeSyncStatus(p, t) == IF p = t /\ t > 0 THEN "passed" ELSE "warning"

\* "Docker available" if not any(r.get("status") == "warning" ...) else
\* "Using mock execution"
SyncMessage(rs) ==
    IF ~(\E k \in 1..Len(rs) : rs[k].status = "warning")
    THEN "Docker available"
    ELSE "Using mock execution"

\* The returned dict (judge.py 108-113, 196-202); execute_code sets no
\* "message".
Verdict(f, p, t, rs) ==
    IF f = "execute_code"
    THEN [status |-> ExecuteCodeStatus(p, t), message |-> "",
          passed |-> p, total |-> t, test_results |-> rs]
    ELSE [status |-> ExecuteCodeSyncStatus(p, t), message |-> SyncMessage(rs),
          passed |-> p, total |-> t, test_results |-> rs]

Return ==
    /\ pc = "loop"
    /\ idx = Len(test_cases.items)
    /\ verdict' = Verdict(fn, passed_count, total_count, results)
    /\ pc' = "done"
    /\ UNCHANGED <<fn, test_cases_json, timeout, test_cases, idx, results,
                   passed_count, total_count, raised, runs, appended>>

Next ==
    \/ ParseFails
    \/ ParseOk
    \/ LenRaises
    \/ TestCaseNotObject
    \/ SandboxStartFails
    \/ SandboxTimesOut
    \/ SandboxExits
    \/ Return

Spec == Init /\ [][Next]_vars

(* ------------------------------- claims ------------------------------- *)

\* The call returned a verdict.
Returned == pc = "done"

\* The returned verdict has the "test_results" key.
HasResults == "test_results" \in DOMAIN verdict

\* The test-case text is a JSON array.
IsArray == test_cases_json.form = "array"

\* Every iteration of the loop reached subprocess.run and it raised: no
\* sandbox started in the whole call.
BackendUnavailable ==
    /\ Len(runs) = Len(test_cases_json.items)
    /\ \A k \in 1..Len(runs) : runs[k].kind = "startfail"

\* C1: in every returned verdict, status is "passed" if and only if
\* total > 0 and passed = total.
C1_PassedIffAllPassed ==
    Returned =>
        (verdict.status = "passed" <=>
            (verdict.total > 0 /\ verdict.passed = verdict.total))

\* C2: when the text is a JSON array, the returned verdict has one
\* test_results entry per test case: len(test_results) = total = length of
\* the suite, whatever the sandboxes did.
C2_OneEntryPerTestCase ==
    (Returned /\ IsArray) =>
        /\ HasResults
        /\ Len(verdict.test_results) = verdict.total
        /\ verdict.total = Len(test_cases_json.items)

\* C3: in every returned verdict the entry at position i of test_results
\* (counted from 0) carries test_case = i.
C3_EntryCarriesItsPosition ==
    (Returned /\ HasResults) =>
        \A k \in 1..Len(verdict.test_results) :
            verdict.test_results[k].test_case = k - 1

\* C4: when the text is not JSON or is JSON that is no array, the call ends
\* by returning (it raises nothing) status "error" with passed = 0 and
\* total = 0, having reached no subprocess.run and recorded no per-test
\* outcome.
C4_MalformedSuiteIsError ==
    (~IsArray /\ pc \in {"done", "raised"}) =>
        /\ Returned
        /\ raised = "none"
        /\ verdict.status = "error"
        /\ verdict.passed = 0
        /\ verdict.total = 0
        /\ runs = <<>>
        /\ results = <<>>

\* C5: when every attempt to start a sandbox raises, for a suite of any
\* length (the empty one included), the call raises nothing and returns
\* status "warning".
C5_BackendUnavailableIsWarning ==
    IsArray =>
        /\ raised = "none"
        /\ (Returned /\ BackendUnavailable) => verdict.status = "warning"

\* C6: execute_code_sync returns status "warning" only if the backend was
\* unavailable for the whole submission: no test case's sandbox started (each
\* subprocess.run raised its start failure, or was never reached).
C6_WarningOnlyWhenUnavailable ==
    (fn = "execute_code_sync" /\ Returned /\ verdict.status = "warning") =>
        \A k \in 1..Len(runs) : runs[k].kind \in {"startfail", "notstarted"}

\* C7: when the sandbox of test case i times out, the outcome recorded for i
\* is status "error" with error "Timeout exceeded (<n>s)", n the per-test
\* timeout, and on return every test case of the suite has had its iteration.
C7_TimeoutIsRecordedAsError ==
    /\ \A k \in 1..Len(runs) :
          runs[k].kind = "timeout" =>
              appended[k] = Entry("error", k - 1, TimeoutText(timeout), "")
    /\ (Returned /\ HasResults) => Len(runs) = Len(test_cases.items)

\* C8: when the sandbox of test case i exits nonzero and prints no result
\* record, the outcome recorded for i is status "error" with error the
\* captured stderr, or "Execution failed" when stderr is empty.
C8_NonzeroExitIsRecordedAsError ==
    \A k \in 1..Len(runs) :
        (runs[k].kind = "exit" /\ runs[k].rc # 0 /\ runs[k].stdout.form # "record") =>
            appended[k] =
                Entry("error", k - 1,
                      IF runs[k].stderr # "" THEN runs[k].stderr ELSE "Execution failed",
                      "")

\* C9: every entry of test_results of a returned verdict has status
\* "passed", "failed" or "error".
C9_EntryStatusIsPassedFailedError ==
    (Returned /\ HasResults) =>
        \A k \in 1..Len(verdict.test_results) :
            verdict.test_results[k].status \in {"passed", "failed", "error"}

\* C10: 0 <= passed <= total at every point of the loop and in the returned
\* verdict; passed_count never exceeds the number of test cases processed so
\* far (it grows by at most one per test case).
C10_PassedWithinTotal ==
    /\ 0 <= passed_count
    /\ passed_count <= idx
    /\ idx <= total_count
    /\ Len(runs) = idx
    /\ Returned => (0 <= verdict.passed /\ verdict.passed <= verdict.total)

\* C10 witness: a suite of two or more test cases was judged and every one
\* was counted as passed.
C10_Witness ==
    /\ Returned
    /\ HasResults
    /\ verdict.total >= 2
    /\ verdict.passed = verdict.total

\* C11: a failure of the submitted code in test case i (it raises at
\* definition time, defines no solution, or raises during the call) is
\* recorded as the "error" outcome of test case i, and the loop goes on: on
\* return every test case has had its iteration, in suite order, each test
\* case that is an object with one sandbox run.
C11_CodeFailureIsRecordedAndLoopGoesOn ==
    /\ \A k \in 1..Len(runs) :
          (\E f \in CodeFailures : runs[k] = FailureOutcome(f, k - 1)) =>
              (appended[k].status = "error" /\ appended[k].test_case = k - 1)
    /\ (Returned /\ HasResults) =>
          /\ Len(runs) = Len(test_cases.items)
          /\ \A k \in 1..Len(runs) :
                test_cases.items[k] = "dict" => runs[k].kind # "notstarted"

\* Sandbox creation failed for two consecutive test cases somewhere before
\* iteration k (k counts iterations from 1).
TwoStartFailuresBefore(k) ==
    \E j \in 2..(k - 1) :
        runs[j - 1].kind = "startfail" /\ runs[j].kind = "startfail"

\* C12: once sandbox creation has failed for two consecutive test cases, no
\* sandbox runs for any later test case of the suite (none exits, none times
\* out), and each later test case is recorded with the outcome the function
\* records for an unavailable backend (a "warning" entry in execute_code_sync,
\* an "error" entry in execute_code).
C12_TwoStartFailuresEndSandboxing ==
    \A k \in 1..Len(runs) :
        TwoStartFailuresBefore(k) =>
            /\ runs[k].kind \notin {"exit", "timeout"}
            /\ appended[k].status \in {"warning", "error"}

\* C13: a returned verdict of a suite that parsed, in which at least one
\* recorded outcome is "passed" or "failed" and not every test case passed,
\* has status "failed"; and status "error" is returned only when the text
\* failed to decode.
C13_MixedSuiteIsFailed ==
    /\ (/\ Returned
        /\ HasResults
        /\ \E k \in 1..Len(verdict.test_results) :
              verdict.test_results[k].status \in {"passed", "failed"}
        /\ verdict.passed < verdict.total)
          => verdict.status = "failed"
    /\ (Returned /\ verdict.status = "error") => test_cases_json.form = "garbage"
====
